---- MODULE Spec2Model ----
(***************************************************************************)
(* Model of mhash (src/mhash.h): a static minimal-collision hash table.    *)
(* mhash_init searches for the smallest number of combined hash functions  *)
(* that places every key of a fixed key set in its own slot of a caller    *)
(* owned table; mhash_entry and mhash_check_at look keys up afterwards.    *)
(*                                                                         *)
(* One behaviour is one program: it fixes the arguments of its mhash_init  *)
(* calls (key array, table size, hash function, pointers) and the build    *)
(* configuration, calls mhash_init - each time on a table buffer holding   *)
(* arbitrary earlier contents - and queries the structure between calls.   *)
(* mhash_init is modelled statement by statement (pc), so that the states  *)
(* inside the trial loop are states of the model.                          *)
(*                                                                         *)
(* Specifications:                                                         *)
(*   Spec          every program over an abstract family of hash functions *)
(*   SpecNarrow    a build with 8-bit ids constructing over 256 keys       *)
(*   SpecScenario  the string scenarios, hashed by mhash_str_prefix        *)
(*   SpecReaders   two threads querying a built structure concurrently     *)
(*   SpecCeilings  a program rebuilt with a raised trial ceiling           *)
(*   SpecFair      the programs of Spec, a call running to its return      *)
(*   SpecRacing    a thread querying while another calls mhash_init        *)
(*   SpecSpoiled   a program whose later calls pass bad arguments          *)
(*   SpecPrefix    mhash_str_prefix evaluated on pairs of keys             *)
(*   SpecMap       programs over one MHashMap (src/mhash_str.h) and the    *)
(*                 growth loop of tests/bench.c                            *)
(*   SpecRebuild   the insert and build calls of SpecMap and the loop of   *)
(*                 bench.c, a running loop executing to its exit           *)
(*   SpecModulus   builds whose table size does not fit the hash type      *)
(***************************************************************************)
EXTENDS Integers, Sequences, FiniteSets

(* ------------------------------------------------------------ bounds -- *)
\* Largest number of keys handed to mhash_init.
MaxCount == 2
\* Largest table_size handed to mhash_init (0 is always tried as well).
MaxTableSize == 3
\* Largest length of the keys on which the string hashes are evaluated
\* directly.
MaxKeyLen == 4

(* -------------------------------------------------------- constants -- *)
MHASH_FAILED == 1
MHASH_OK == 0
\* No call has returned yet.
NoStatus == MHASH_FAILED + 1
\* The trial ceiling, as configured by -DMHASH_MAX_HASHES=4.
MHASH_MAX_HASHES == 4
\* Width in bits of MHASH_UINT and of MHASH_INDEX_UINT, as configured by
\* -DMHASH_UINT=uint16_t -DMHASH_INDEX_UINT=uint16_t (the types of the
\* string hashes of mhash_str.h); the sentinel is the largest value of the
\* index type.
MHASH_UINT_BITS == 16
MHASH_INDEX_BITS == 16
\* Pointers are addresses; the null pointer is address 0.
NULL == 0

(* ------------------------------------------------------------- keys -- *)
\* Keys are NUL-terminated byte strings, written as the sequence of their
\* bytes: "D", "Do", "A".
KeyList == << <<68>>, <<68, 111>>, <<65>> >>
Keys == { KeyList[k] : k \in 1..Len(KeyList) }

\* Key arrays of length n, duplicates included (the code does not detect
\* them).  The hash family below is closed under renaming the keys, so one
\* array stands for all its renamings: the keys of an array appear in the
\* order of KeyList.
KeyArrays(n) ==
    { [j \in 1..n |-> KeyList[x[j]]] :
        x \in { y \in [1..n -> 1..Len(KeyList)] :
                 \A j \in 1..n :
                     \/ y[j] = 1
                     \/ \E m \in 1..(j - 1) : y[m] + 1 >= y[j] } }

\* strcmp: the difference of the first pair of differing bytes, the
\* terminator counting as byte 0.
RECURSIVE strcmp(_, _)
strcmp(a, b) ==
    IF a = <<>> /\ b = <<>> THEN 0
    ELSE IF a = <<>> THEN 0 - Head(b)
    ELSE IF b = <<>> THEN Head(a)
    ELSE IF Head(a) # Head(b) THEN Head(a) - Head(b)
    ELSE strcmp(Tail(a), Tail(b))

mhash_strcmp(a, b) == strcmp(a, b)

(* ------------------------------------------------ 64-bit arithmetic -- *)
\* A uint64_t is written as its four 16-bit limbs, least significant first.
Limb == 2^16

\* 0x9E3779B97F4A7C15
GOLDEN == <<31765, 32586, 31161, 40503>>

\* (uint64_t)c of a byte c.
Word64(c) == <<c, 0, 0, 0>>

\* a + b, modulo 2^64.
Add64(a, b) ==
    LET s1 == a[1] + b[1]
        s2 == a[2] + b[2] + (s1 \div Limb)
        s3 == a[3] + b[3] + (s2 \div Limb)
        s4 == a[4] + b[4] + (s3 \div Limb)
    IN <<s1 % Limb, s2 % Limb, s3 % Limb, s4 % Limb>>

\* a * k, modulo 2^64, for a factor k below 2^15.
Mul64(a, k) ==
    LET p1 == a[1] * k
        p2 == a[2] * k + (p1 \div Limb)
        p3 == a[3] * k + (p2 \div Limb)
        p4 == a[4] * k + (p3 \div Limb)
    IN <<p1 % Limb, p2 % Limb, p3 % Limb, p4 % Limb>>

\* a << 6 and a >> 2.
Shl6(a) ==
    <<(a[1] * 64) % Limb,
      ((a[2] * 64) % Limb) + (a[1] \div 1024),
      ((a[3] * 64) % Limb) + (a[2] \div 1024),
      ((a[4] * 64) % Limb) + (a[3] \div 1024)>>
Shr2(a) ==
    <<(a[1] \div 4) + ((a[2] % 4) * 16384),
      (a[2] \div 4) + ((a[3] % 4) * 16384),
      (a[3] \div 4) + ((a[4] % 4) * 16384),
      a[4] \div 4>>

\* Bitwise exclusive or of two naturals.
RECURSIVE BitXor(_, _)
BitXor(a, b) ==
    IF a = 0 THEN b
    ELSE IF b = 0 THEN a
    ELSE (((a % 2) + (b % 2)) % 2) + 2 * BitXor(a \div 2, b \div 2)

\* a ^ b
Xor64(a, b) == [k \in 1..4 |-> BitXor(a[k], b[k])]

\* a % m, for a modulus m below 2^15.
Mod64(a, m) ==
    LET r4 == a[4] % m
        r3 == (r4 * Limb + a[3]) % m
        r2 == (r3 * Limb + a[2]) % m
    IN (r2 * Limb + a[1]) % m

(* ---------------------------------------------------- string hashes -- *)
\* Faulty variant: the prefix is the first byte for every id.
PrefixLengthOne(id) == 1

\* Faulty variant: the bound on i is dropped and every byte is mixed, as in
\* mhash_str_all.
PrefixLengthWhole(id) == Limb

\* Faulty variant: id + 1 bytes are mixed (i < id + 1).
PrefixLengthShort(id) == id + 1

\* for (i = 0; i <= id+1 && *p; ++i, ++p): the number of bytes mixed, at
\* most.
PrefixLength(id) == id + 2

\* h ^= (uint64_t)(*p + 0x9E3779B97F4A7C15ULL + (h << 6) + (h >> 2)), over
\* the first n bytes of s, or all of s if it is shorter.
RECURSIVE Mix(_, _, _)
Mix(h, s, n) ==
    IF n = 0 \/ s = <<>> THEN h
    ELSE Mix(Xor64(h, Add64(Add64(Add64(Word64(Head(s)), GOLDEN), Shl6(h)),
                            Shr2(h))),
             Tail(s), n - 1)

\* The value of h at the return statement of mhash_str_prefix, id being a
\* uint16_t.
mhash_str_prefix_h(s, id) ==
    Mix(Mul64(GOLDEN, (id % Limb) + 1), s, PrefixLength(id % Limb))

\* mhash_str_prefix: (uint16_t)(h & 0xFFFF)
mhash_str_prefix(s, id) == mhash_str_prefix_h(s, id)[1]

(* -------------------------------------------------------- variables -- *)
VARIABLES
    uint_bits,   \* build configuration: the width in bits of MHASH_UINT
    index_bits,  \* build configuration: the width in bits of MHASH_INDEX_UINT
    nwc,         \* build configuration: MHASH_NO_WORST_CASE is defined
    args,        \* the arguments of the program's mhash_init calls
    ph,          \* the MHash structure
    table,       \* the contents of the caller's table buffer
    worst_case,  \* mhash_init's local worst_case
    i,           \* mhash_init's key loop index
    idx,         \* mhash_init's idx: the last slot index it computed
    pc,          \* position inside mhash_init: idle, clear, check, place, done
    ret,         \* status returned by the last finished mhash_init call
    stale,       \* history: the buffer of the current call held old entries
    first,       \* history: outcome of the first call that passed validation
    trials,      \* history: the slot indices computed by each trial of the call
    q,           \* the last query made and its result
    rd,          \* the query each reader thread is executing, and its locals
    probe,       \* the last direct evaluation of a string hash on two keys
    map          \* the MHashMap object: its vectors and its methods' locals

(* ------------------------------------------------------ hash family -- *)
\* A hash function is a pure function of (key, id).  It is written as the
\* sequence of its tables, one per id, each mapping keys to hash values;
\* ids beyond the last table repeat the sequence cyclically.  The model
\* draws it from the tables over the keys and the ids of HashIds.
HashIds == 1..2
HashValues == {1, 2}
mhash_func == [HashIds -> [Keys -> HashValues]]

\* hash_func(s, id)
CallHash(hash_func, s, id) ==
    hash_func[((id - 1) % Len(hash_func)) + 1][s]

\* Values of type MHASH_UINT: naturals below 2^16 in the 16-bit build, limb
\* sequences in the 64-bit build.  WideBits is the width of uint64_t.
WideBits == 64
ZeroWord == IF uint_bits = WideBits THEN Word64(0) ELSE 0
\* a ^ b (in the 16-bit build each operand is evaluated once, then
\* combined)
XorWord(a, b) ==
    IF uint_bits = WideBits THEN Xor64(a, b)
    ELSE CHOOSE r \in { BitXor(x, y) : x \in {a % 2^uint_bits},
                                        y \in {b % 2^uint_bits} } : TRUE
\* (MHASH_UINT)table_size: the size truncated to the width of the hash
\* type (sizes of the 64-bit build are below 2^15 and unchanged).
Modulus(table_size) ==
    IF uint_bits = WideBits THEN table_size ELSE table_size % 2^uint_bits

\* a % (MHASH_UINT)m, m being a size_t below 2^15.
ModWord(a, m) ==
    IF uint_bits = WideBits THEN Mod64(a, m) ELSE a % (m % 2^uint_bits)

\* Faulty variant: the fold runs over the ids 0..num_hashes-1.
RECURSIVE mhash__concat_from_zero(_, _, _)
mhash__concat_from_zero(hash_func, num_hashes, s) ==
    IF num_hashes = 0 THEN ZeroWord
    ELSE XorWord(mhash__concat_from_zero(hash_func, num_hashes - 1, s),
                 CallHash(hash_func, s, num_hashes - 1))

\* mhash__concat: XOR of hash_func(s, i) for i = 1..num_hashes.
RECURSIVE mhash__concat(_, _, _)
mhash__concat(hash_func, num_hashes, s) ==
    IF num_hashes = 0 THEN ZeroWord
    ELSE XorWord(mhash__concat(hash_func, num_hashes - 1, s),
                 CallHash(hash_func, s, num_hashes))

\* The number of calls of hash_func made by mhash__concat: one per
\* iteration of for (i = 1; i <= num_hashes; ++i).
RECURSIVE mhash__concat_calls(_)
mhash__concat_calls(num_hashes) ==
    IF num_hashes = 0 THEN 0 ELSE mhash__concat_calls(num_hashes - 1) + 1

\* Faulty variant: the combined hash is not reduced modulo table_size.
SlotIndexUnreduced(hash_func, num_hashes, table_size, s) ==
    mhash__concat(hash_func, num_hashes, s)

\* mhash__concat(...) % (MHASH_UINT)table_size
SlotIndex(hash_func, num_hashes, table_size, s) ==
    ModWord(mhash__concat(hash_func, num_hashes, s), table_size)

(* ------------------------------------------------------------ state -- *)
vars ==
    <<uint_bits, index_bits, nwc, args, ph, table, worst_case, i, idx, pc,
      ret, stale, first, trials, q, rd, probe, map>>

\* MHASH_EMPTY_SLOT: (MHASH_INDEX_UINT)(-1), the largest value of the index
\* type.
MHASH_EMPTY_SLOT == 2^index_bits - 1

NoRun == [ret |-> "none"]
NoQuery == [op |-> "none"]

\* Threads that query the structure concurrently, and a thread that is
\* inside no query.  overlap is history: a mhash_init call was in flight
\* at some point of the query.
Readers == {1, 2}
IdleReader ==
    [pc |-> "idle", op |-> "none", s |-> <<>>, sizeof_value |-> 0,
     idx |-> 0, entry |-> 0, result |-> 0, overlap |-> FALSE]

\* No string hash has been evaluated directly.
NoProbe == [id |-> 0, s |-> <<>>, t |-> <<>>, hs |-> 0, ht |-> 0, n |-> 0]

\* A default-constructed MHashMap with no method running: its vectors are
\* empty (mhash_ is the structure ph and table_ the buffer table).  The
\* locals of rebuild's loop are table_size and, as history, the attempts
\* made; policy tells whose loop runs, rebuild's or the one of bench.c.
\* exit tells how the loop was left (none, break, throw or, in bench.c,
\* goto).
\* History of the calls: last_build (none, returned, thrown), rebuilt (a
\* rebuild has run since construction or the last clear), cleared (clear
\* was called), inserted (the insert calls made), and the last get with
\* its key and result.  A value pointer
\* returned by get is written as 1 + the index of the entry, nullptr as
\* NULL.
NewMap ==
    [entries_ |-> <<>>, staged_keys_ |-> <<>>, staged_values_ |-> <<>>,
     pc |-> "idle", policy |-> "rebuild", table_size |-> 0,
     attempts |-> <<>>, exit |-> "none", last_build |-> "none",
     rebuilt |-> FALSE,
     cleared |-> FALSE, inserted |-> 0, op |-> "none", key |-> <<>>,
     result |-> NULL]

\* The zero-initialised structure (MHash m = {}).
ZeroMHash ==
    [table |-> NULL, table_size |-> 0, num_hashes |-> 0, count |-> 0,
     hash_func |-> <<>>]

\* Contents a caller's buffer of n slots can hold before a call: every slot
\* is empty or holds a dense id left by an earlier construction.
StaleValues == {MHASH_EMPTY_SLOT, 0, MaxCount - 1}
Buffers(n) == [0..(n - 1) -> StaleValues]

\* A pointer argument is null or the address of the caller's object.
Pointers == {NULL, 1}

Arguments ==
    { a \in [ph : Pointers, table : Pointers, strings : Pointers,
             table_size : 0..MaxTableSize, count : 0..MaxCount,
             keys : UNION { KeyArrays(n) : n \in 0..MaxCount },
             hash_func : mhash_func] :
        /\ Len(a.keys) = a.count
        \* at most one pointer is null in one program
        /\ Cardinality({f \in {"ph", "table", "strings"} : a[f] = NULL}) <= 1 }

\* Before the first call: the structure is zero-initialised and no call or
\* query has been made.
Start ==
    /\ ph = ZeroMHash
    /\ table = <<>>
    /\ worst_case = 0
    /\ i = 0
    /\ idx = 0
    /\ pc = "idle"
    /\ ret = NoStatus
    /\ stale = FALSE
    /\ first = NoRun
    /\ trials = <<>>
    /\ q = NoQuery
    /\ rd = [r \in Readers |-> IdleReader]
    /\ probe = NoProbe
    /\ map = NewMap

Init ==
    /\ uint_bits = MHASH_UINT_BITS
    /\ index_bits = MHASH_INDEX_BITS
    /\ nwc \in BOOLEAN
    /\ args \in Arguments
    /\ Start

(* ------------------------------------------------------- mhash_init -- *)
\* What a word outside the table buffer reads as: memory of another object
\* of the caller, which holds no sentinel.
OutsideTable == 0

\* table[index]
Load(t, index) == IF index \in DOMAIN t THEN t[index] ELSE OutsideTable

\* Faulty variant: the key array is not validated.
BadArgumentsNoStrings(a) ==
    a.ph = NULL \/ a.table = NULL \/ a.table_size = 0

\* if (!ph || !table || !strings || table_size == 0) return MHASH_FAILED;
BadArguments(a) ==
    a.ph = NULL \/ a.table = NULL \/ a.strings = NULL \/ a.table_size = 0

\* Faulty variant: the cap is applied when MHASH_NO_WORST_CASE is defined
\* instead of when it is not (#ifdef for #ifndef).
WorstCaseInverted(no_worst_case, count) ==
    IF no_worst_case /\ MHASH_MAX_HASHES > count THEN count
    ELSE MHASH_MAX_HASHES

\* worst_case = MHASH_MAX_HASHES, capped at count unless
\* MHASH_NO_WORST_CASE is defined.
WorstCase(no_worst_case, count) ==
    IF ~no_worst_case /\ MHASH_MAX_HASHES > count THEN count
    ELSE MHASH_MAX_HASHES

\* Faulty variant: the clearing loop stops one slot early.
ClearTableShort(t, table_size) ==
    [j \in DOMAIN t |-> IF j < table_size - 1 THEN MHASH_EMPTY_SLOT ELSE t[j]]

\* for (i = 0; i < table_size; ++i) table[i] = MHASH_EMPTY_SLOT;
ClearTable(t, table_size) ==
    [j \in DOMAIN t |-> IF j < table_size THEN MHASH_EMPTY_SLOT ELSE t[j]]

\* Faulty variant: the ceiling test is strict, allowing one more trial.
CeilingReachedLate(num_hashes, wc) == num_hashes > wc

\* if (ph->num_hashes >= worst_case)
CeilingReached(num_hashes, wc) == num_hashes >= wc

\* Faulty variant: a taken slot is not noticed and is overwritten.
OccupiedNever(t, index) == FALSE

\* if (table[idx] != MHASH_EMPTY_SLOT)
Occupied(t, index) == Load(t, index) # MHASH_EMPTY_SLOT

\* Faulty variant: ids are stored one-based.
DenseIdOneBased(index) == (index + 1) % 2^index_bits

\* table[idx] = i: the loop index, converted to MHASH_INDEX_UINT.
DenseId(index) == index % 2^index_bits

\* Faulty variant: num_hashes is not reset and the search resumes from the
\* value the structure held.
StartHashesKept(old_num_hashes) == old_num_hashes

\* ph->num_hashes = 0: the search starts from no hash function, whatever
\* the structure held.
StartHashes(old_num_hashes) == 0

\* Faulty variant: the trial after a collision skips a number of hashes.
NextHashesSkip(num_hashes) == num_hashes + 2

\* ph->num_hashes++
NextHashes(num_hashes) == num_hashes + 1

\* Faulty variant: count and table_size are stored in each other's field.
MHashFieldsSwapped(a, old_num_hashes) ==
    [table |-> a.table, table_size |-> a.count, count |-> a.table_size,
     hash_func |-> a.hash_func, num_hashes |-> StartHashes(old_num_hashes)]

\* ph->table = table; ph->table_size = table_size; ph->count = count;
\* ph->hash_func = hash_func; ph->num_hashes = 0;
MHashFields(a, old_num_hashes) ==
    [table |-> a.table, table_size |-> a.table_size, count |-> a.count,
     hash_func |-> a.hash_func, num_hashes |-> StartHashes(old_num_hashes)]

\* Entry of mhash_init: argument validation and the structure's fields.
\* The buffer passed holds one of the contents bufs.
Enter(bufs) ==
    /\ pc \in {"idle", "done"}
    /\ IF BadArguments(args)
       THEN /\ ret' = MHASH_FAILED
            /\ pc' = "done"
            /\ UNCHANGED <<ph, table, worst_case, i, stale, trials>>
       ELSE /\ \E buf \in bufs :
                 /\ table' = buf
                 /\ stale' = (\E j \in DOMAIN buf : buf[j] # MHASH_EMPTY_SLOT)
            /\ ph' = MHashFields(args, ph.num_hashes)
            /\ worst_case' = WorstCase(nwc, args.count)
            /\ pc' = "clear"
            /\ ret' = NoStatus
            /\ trials' = <<>>
            /\ UNCHANGED i
    /\ UNCHANGED <<probe, map, uint_bits, index_bits, nwc, args, idx, first>>

\* A call made while no query is running.
CallOn(bufs) ==
    /\ q = NoQuery
    /\ \A r \in Readers : rd[r].pc = "idle"
    /\ UNCHANGED <<q, rd>>
    /\ Enter(bufs)

\* mhash_init is called on a buffer holding arbitrary earlier contents.
Call == CallOn(Buffers(args.table_size))

\* Head of the trial loop: every slot is cleared.
Clear ==
    /\ pc = "clear"
    /\ table' = ClearTable(table, ph.table_size)
    /\ pc' = "check"
    /\ UNCHANGED <<probe, map, uint_bits, index_bits, nwc, args, ph,
                   worst_case, i, idx, ret, stale, first, q, rd, trials>>

\* The outcome recorded when a call that passed validation returns.
Outcome(status, num_hashes, t) ==
    IF first = NoRun
    THEN [ret |-> status, num_hashes |-> num_hashes, table |-> t,
          stale |-> stale, nwc |-> nwc, trials |-> trials]
    ELSE first

\* The ceiling test: fail, or start the trial with one more hash function.
Check ==
    /\ pc = "check"
    /\ IF CeilingReached(ph.num_hashes, worst_case)
       THEN /\ ret' = MHASH_FAILED
            /\ pc' = "done"
            /\ first' = Outcome(MHASH_FAILED, ph.num_hashes, table)
            /\ UNCHANGED <<ph, i, trials>>
       ELSE /\ ph' = [ph EXCEPT !.num_hashes = NextHashes(ph.num_hashes)]
            /\ i' = 0
            /\ pc' = "place"
            /\ trials' = Append(trials, <<>>)
            /\ UNCHANGED <<ret, first>>
    /\ UNCHANGED <<probe, map, uint_bits, index_bits, nwc, args, table,
                   worst_case, idx, stale, q, rd>>

\* One iteration of the key loop: key i is placed, or its slot is taken
\* and the trial is abandoned.
Place ==
    /\ pc = "place"
    /\ i < ph.count
    /\ Modulus(ph.table_size) # 0
    /\ idx' = SlotIndex(ph.hash_func, ph.num_hashes, ph.table_size,
                        args.keys[i + 1])
    /\ trials' = [trials EXCEPT ![Len(trials)] = Append(@, idx')]
    /\ IF Occupied(table, idx')
       THEN /\ pc' = "clear"
            /\ UNCHANGED <<table, i>>
       ELSE /\ table' = [table EXCEPT ![idx'] = DenseId(i)]
            /\ i' = i + 1
            /\ pc' = "place"
    /\ UNCHANGED <<probe, map, uint_bits, index_bits, nwc, args, ph,
                   worst_case, ret, stale, first, q, rd>>

\* The iteration when (MHASH_UINT)table_size is 0: the remainder of line
\* 95 is undefined.  The division traps and the program is killed (x86),
\* or it yields 0 and the remainder is the combined hash itself (AArch64),
\* with which the iteration goes on.
PlaceByZero ==
    /\ pc = "place"
    /\ i < ph.count
    /\ Modulus(ph.table_size) = 0
    /\ \/ /\ pc' = "fault"
          /\ UNCHANGED <<table, i, idx, trials>>
       \/ /\ idx' = mhash__concat(ph.hash_func, ph.num_hashes,
                                  args.keys[i + 1])
          /\ trials' = [trials EXCEPT ![Len(trials)] = Append(@, idx')]
          /\ IF Occupied(table, idx')
             THEN /\ pc' = "clear"
                  /\ UNCHANGED <<table, i>>
             ELSE /\ table' = [table EXCEPT ![idx'] = DenseId(i)]
                  /\ i' = i + 1
                  /\ pc' = "place"
    /\ UNCHANGED <<probe, map, uint_bits, index_bits, nwc, args, ph,
                   worst_case, ret, stale, first, q, rd>>

\* The key loop ran to its end: if (ok) return MHASH_OK;
Finish ==
    /\ pc = "place"
    /\ i >= ph.count
    /\ ret' = MHASH_OK
    /\ pc' = "done"
    /\ first' = Outcome(MHASH_OK, ph.num_hashes, table)
    /\ UNCHANGED <<probe, map, uint_bits, index_bits, nwc, args, ph, table,
                   worst_case, i, idx, stale, q, rd, trials>>

(* ---------------------------------------------------------- queries -- *)
\* Faulty variant: the fold runs over one hash id too many.
mhash_entry_pos_extra(h, s) ==
    ModWord(mhash__concat(h.hash_func, h.num_hashes + 1, s), h.table_size)

\* mhash_entry_pos: the slot index of a key.
mhash_entry_pos(h, s) ==
    ModWord(mhash__concat(h.hash_func, h.num_hashes, s), h.table_size)

\* MHashMap's private mhash_entry_pos.
MHashMap_mhash_entry_pos(h, s) ==
    ModWord(mhash__concat(h.hash_func, h.num_hashes, s), h.table_size)

\* Faulty variant: mhash_entry folds over one hash id too many.
mhash_entry_idx_extra(h, s) ==
    ModWord(mhash__concat(h.hash_func, h.num_hashes + 1, s), h.table_size)

\* The idx computed by mhash_entry.
mhash_entry_idx(h, s) ==
    ModWord(mhash__concat(h.hash_func, h.num_hashes, s), h.table_size)

\* The idx computed by mhash_check_at.
mhash_check_at_idx(h, s) ==
    ModWord(mhash__concat(h.hash_func, h.num_hashes, s), h.table_size)

\* Faulty variant: the slot index is returned instead of the slot content.
mhash_entry_index(h, t, s) == mhash_entry_idx(h, s)

\* mhash_entry: the slot's content, verbatim.
mhash_entry(h, t, s) == Load(t, mhash_entry_idx(h, s))

\* Faulty variant: the entry is not scaled by the value size.
mhash_check_at_unscaled(h, t, s, keys, values, sizeof_value) ==
    LET entry == Load(t, mhash_check_at_idx(h, s))
    IN IF entry = MHASH_EMPTY_SLOT THEN NULL
       ELSE IF mhash_strcmp(keys[entry + 1], s) # 0 THEN NULL
       ELSE values + entry

\* Faulty variant: the stored key is not compared with the query key.
mhash_check_at_unverified(h, t, s, keys, values, sizeof_value) ==
    LET entry == Load(t, mhash_check_at_idx(h, s))
    IN IF entry = MHASH_EMPTY_SLOT THEN NULL
       ELSE values + entry * sizeof_value

\* mhash_check_at: NULL, or the address values + entry * sizeof_value.
mhash_check_at(h, t, s, keys, values, sizeof_value) ==
    LET entry == Load(t, mhash_check_at_idx(h, s))
    IN IF entry = MHASH_EMPTY_SLOT THEN NULL
       ELSE IF mhash_strcmp(keys[entry + 1], s) # 0 THEN NULL
       ELSE values + entry * sizeof_value

\* Faulty variant: the stored key is compared before the sentinel test.
mhash_check_at_reads_eager(h, t, s) == { Load(t, mhash_check_at_idx(h, s)) }

\* The indices at which mhash_check_at reads the key array, handing the
\* element to the comparator: keys[entry], unless the slot is empty.
mhash_check_at_reads(h, t, s) ==
    LET entry == Load(t, mhash_check_at_idx(h, s))
    IN IF entry = MHASH_EMPTY_SLOT THEN {} ELSE {entry}

\* The number of calls of cmp_func made by mhash_check_at: one, unless the
\* slot is empty.
mhash_check_at_cmp_calls(h, t, s) ==
    LET entry == Load(t, mhash_check_at_idx(h, s))
    IN IF entry = MHASH_EMPTY_SLOT THEN 0 ELSE 1

\* Value sizes passed as sizeof_value, and the address of the value array.
ValueSizes == {4}
ValuesAddress == 64

\* The structure was filled in by a call that passed validation and the
\* call has returned.
Queryable == pc = "done" /\ ph.table # NULL

\* The three queries, on a key of the set S; mhash_check_at is handed one
\* of the key arrays A.
QueryEntryPosIn(S) ==
    /\ Queryable
    /\ q = NoQuery
    /\ \E s \in S :
         q' = [op |-> "mhash_entry_pos", s |-> s,
               idx |-> mhash_entry_pos(ph, s),
               hash_calls |-> mhash__concat_calls(ph.num_hashes),
               result |-> mhash_entry_pos(ph, s)]
    /\ UNCHANGED <<probe, map, uint_bits, index_bits, nwc, args, ph, table,
                   worst_case, i, idx, pc, ret, stale, first, rd, trials>>

QueryEntryIn(S) ==
    /\ Queryable
    /\ q = NoQuery
    /\ \E s \in S :
         q' = [op |-> "mhash_entry", s |-> s,
               idx |-> mhash_entry_idx(ph, s),
               hash_calls |-> mhash__concat_calls(ph.num_hashes),
               result |-> mhash_entry(ph, table, s)]
    /\ UNCHANGED <<probe, map, uint_bits, index_bits, nwc, args, ph, table,
                   worst_case, i, idx, pc, ret, stale, first, rd, trials>>

QueryCheckAtIn(S, A) ==
    /\ Queryable
    /\ q = NoQuery
    /\ \E s \in S, keys \in A, sz \in ValueSizes :
         q' = [op |-> "mhash_check_at", s |-> s, keys |-> keys,
               sizeof_value |-> sz,
               idx |-> mhash_check_at_idx(ph, s),
               key_reads |-> mhash_check_at_reads(ph, table, s),
               hash_calls |-> mhash__concat_calls(ph.num_hashes),
               cmp_calls |-> mhash_check_at_cmp_calls(ph, table, s),
               result |-> mhash_check_at(ph, table, s, keys, ValuesAddress, sz)]
    /\ UNCHANGED <<probe, map, uint_bits, index_bits, nwc, args, ph, table,
                   worst_case, i, idx, pc, ret, stale, first, rd, trials>>

\* Queries on the keys of the model, with every key array of count keys.
QueryEntryPos == QueryEntryPosIn(Keys)
QueryEntry == QueryEntryIn(Keys)
QueryCheckAt == QueryCheckAtIn(Keys, KeyArrays(ph.count))

\* The caller has used the result of its query.
QueryReturn ==
    /\ q # NoQuery
    /\ q' = NoQuery
    /\ UNCHANGED <<probe, map, uint_bits, index_bits, nwc, args, ph, table,
                   worst_case, i, idx, pc, ret, stale, first, rd, trials>>

Next ==
    \/ Call \/ Clear \/ Check \/ Place \/ Finish
    \/ QueryEntryPos \/ QueryEntry \/ QueryCheckAt \/ QueryReturn

Spec == Init /\ [][Next]_vars

(* ------------------------------------------- a build with 8-bit ids -- *)
\* The build configured by -DMHASH_INDEX_UINT=uint8_t, constructing over as
\* many keys as the index type has values.
NarrowBits == 8
NarrowCount == 2^NarrowBits

\* Key number j: the two-letter string of the base-16 digits of j, written
\* with the letters from "A" on.
NarrowKey(j) == <<65 + (j \div 16), 65 + (j % 16)>>
NarrowKeys == { NarrowKey(j) : j \in 0..(NarrowCount - 1) }

\* A hash function that is perfect on the keys: the number of the key.
NarrowHash == << [s \in NarrowKeys |-> 16 * (s[1] - 65) + (s[2] - 65)] >>

NarrowArguments ==
    [ph |-> 1, table |-> 1, strings |-> 1,
     table_size |-> NarrowCount, count |-> NarrowCount,
     keys |-> [j \in 1..NarrowCount |-> NarrowKey(j - 1)],
     hash_func |-> NarrowHash]

\* Buffers of n slots whose slots all hold the same earlier content.
UniformBuffers(n) == { [j \in 0..(n - 1) |-> v] : v \in StaleValues }

CallUniform == CallOn(UniformBuffers(args.table_size))

\* Every program, its calls made on buffers of uniform earlier content and
\* its mhash_check_at calls handed the key array of the construction; a
\* call of mhash_init, once entered, keeps executing its statements.
CheckAtConstructed == QueryCheckAtIn(Keys, {args.keys})

NextFair ==
    \/ CallUniform \/ Clear \/ Check \/ Place \/ Finish
    \/ QueryEntry \/ CheckAtConstructed \/ QueryReturn

SpecFair ==
    Init /\ [][NextFair]_vars /\ WF_vars(Clear \/ Check \/ Place \/ Finish)

\* The same keys followed by a second copy of the last one, in a table
\* with a slot for each.
NarrowDuplicateArguments ==
    [ph |-> 1, table |-> 1, strings |-> 1,
     table_size |-> NarrowCount + 1, count |-> NarrowCount + 1,
     keys |-> [j \in 1..(NarrowCount + 1) |->
                  NarrowKey(IF j <= NarrowCount THEN j - 1
                            ELSE NarrowCount - 1)],
     hash_func |-> NarrowHash]

InitNarrow ==
    /\ uint_bits = MHASH_UINT_BITS
    /\ index_bits = NarrowBits
    /\ nwc \in BOOLEAN
    /\ args \in {NarrowArguments, NarrowDuplicateArguments}
    /\ Start

NextNarrow == CallUniform \/ Clear \/ Check \/ Place \/ Finish

SpecNarrow == InitNarrow /\ [][NextNarrow]_vars

(* -------------------------------------------- the string scenarios -- *)
\* "Apple", "Banana", "Cherry", "Date", "Doodoo", "D" and "Unknown".
Apple == <<65, 112, 112, 108, 101>>
Banana == <<66, 97, 110, 97, 110, 97>>
Cherry == <<67, 104, 101, 114, 114, 121>>
Date == <<68, 97, 116, 101>>
Doodoo == <<68, 111, 111, 100, 111, 111>>
D == <<68>>
Unknown == <<85, 110, 107, 110, 111, 119, 110>>
ScenarioKeys == {Apple, Banana, Cherry, Date, Doodoo, D, Unknown}

\* mhash_str_prefix as the hash function of a build whose MHASH_UINT is
\* uint16_t, the type the function is declared with.
StrPrefix16 ==
    [id \in 1..MHASH_MAX_HASHES |->
        [s \in ScenarioKeys |-> mhash_str_prefix(s, id)]]

\* mhash_str_prefix called through mhash_func in a build whose MHASH_UINT
\* is uint64_t: the call is through an incompatible function type, and the
\* 64-bit word the caller receives is the 16-bit result zero-extended, or
\* the register holding h with its upper 48 bits left in place.
StrPrefix64Extended ==
    [id \in 1..MHASH_MAX_HASHES |->
        [s \in ScenarioKeys |-> Word64(mhash_str_prefix(s, id))]]
StrPrefix64Register ==
    [id \in 1..MHASH_MAX_HASHES |->
        [s \in ScenarioKeys |-> mhash_str_prefix_h(s, id)]]

\* The builds of a scenario: the width of MHASH_UINT and the hash function
\* as its caller sees it.
ScenarioBuilds ==
    { [uint_bits |-> MHASH_UINT_BITS, hash_func |-> StrPrefix16],
      [uint_bits |-> WideBits, hash_func |-> StrPrefix64Extended],
      [uint_bits |-> WideBits, hash_func |-> StrPrefix64Register] }

\* Scenario A: six keys in a table of 37 slots.  Scenario B: two keys
\* sharing their first byte in a table of 5 slots.
ScenarioAKeys == <<Apple, Banana, Cherry, Date, Doodoo, D>>
ScenarioBKeys == <<D, Doodoo>>
ScenarioArguments(hash_func) ==
    { [ph |-> 1, table |-> 1, strings |-> 1, table_size |-> 37,
       count |-> Len(ScenarioAKeys), keys |-> ScenarioAKeys,
       hash_func |-> hash_func],
      [ph |-> 1, table |-> 1, strings |-> 1, table_size |-> 5,
       count |-> Len(ScenarioBKeys), keys |-> ScenarioBKeys,
       hash_func |-> hash_func] }

InitScenario ==
    /\ \E b \in ScenarioBuilds :
         /\ uint_bits = b.uint_bits
         /\ args \in ScenarioArguments(b.hash_func)
    /\ index_bits = MHASH_INDEX_BITS
    /\ nwc \in BOOLEAN
    /\ Start

\* The queries of a scenario: on any of its strings, with the key array
\* of the construction.
ScenarioEntryPos == QueryEntryPosIn(ScenarioKeys)
ScenarioEntry == QueryEntryIn(ScenarioKeys)
ScenarioCheckAt == QueryCheckAtIn(ScenarioKeys, {args.keys})

NextScenario ==
    \/ CallUniform \/ Clear \/ Check \/ Place \/ Finish
    \/ ScenarioEntryPos \/ ScenarioEntry \/ ScenarioCheckAt \/ QueryReturn

SpecScenario == InitScenario /\ [][NextScenario]_vars

(* ----------------------------------------------- concurrent readers -- *)
\* Queries run by several threads, statement by statement: the combined
\* hash and its reduction (hash), the read of the slot (load), the sentinel
\* test and the comparison (cmp), the return (ret).  A program of this
\* specification passes mhash_init's validation and constructs over
\* MaxCount keys in a table of MaxTableSize slots.
ReaderArguments ==
    { a \in Arguments :
        /\ ~BadArguments(a)
        /\ a.count = MaxCount
        /\ a.table_size = MaxTableSize }

InitReaders ==
    /\ uint_bits = MHASH_UINT_BITS
    /\ index_bits = MHASH_INDEX_BITS
    /\ nwc \in BOOLEAN
    /\ args \in ReaderArguments
    /\ Start

\* Faulty variant: idx is kept in one static variable shared by the threads.
ReaderIdxShared(r) == rd[1].idx

\* The local variable idx of thread r's call.
ReaderIdx(r) == rd[r].idx

\* A thread enters mhash_entry or mhash_check_at.
ReadBegin(r) ==
    /\ Queryable
    /\ rd[r].pc = "idle"
    /\ \E op \in {"mhash_entry", "mhash_check_at"}, s \in Keys,
          sz \in ValueSizes :
         rd' = [rd EXCEPT ![r] = [IdleReader EXCEPT !.pc = "hash", !.op = op,
                                      !.s = s, !.sizeof_value = sz]]
    /\ UNCHANGED <<probe, map, uint_bits, index_bits, nwc, args, ph, table,
                   worst_case, i, idx, pc, ret, stale, first, q, trials>>

\* idx = mhash__concat(...) % (MHASH_UINT)ph->table_size
ReadHash(r) ==
    /\ rd[r].pc = "hash"
    /\ rd' = [rd EXCEPT ![r].pc = "load",
                        ![r].idx = IF rd[r].op = "mhash_entry"
                                   THEN mhash_entry_idx(ph, rd[r].s)
                                   ELSE mhash_check_at_idx(ph, rd[r].s)]
    /\ UNCHANGED <<probe, map, uint_bits, index_bits, nwc, args, ph, table,
                   worst_case, i, idx, pc, ret, stale, first, q, trials>>

\* ph->table[idx]: returned by mhash_entry, kept as entry by mhash_check_at.
ReadLoad(r) ==
    /\ rd[r].pc = "load"
    /\ LET entry == Load(table, ReaderIdx(r))
       IN rd' = [rd EXCEPT ![r].entry = entry,
                           ![r].result = IF rd[r].op = "mhash_entry"
                                         THEN entry ELSE rd[r].result,
                           ![r].pc = IF rd[r].op = "mhash_entry"
                                     THEN "ret" ELSE "cmp"]
    /\ UNCHANGED <<probe, map, uint_bits, index_bits, nwc, args, ph, table,
                   worst_case, i, idx, pc, ret, stale, first, q, trials>>

\* The sentinel test, the comparison with keys[entry] and the address of
\* the value, the key array being the construction's.
ReadCompare(r) ==
    /\ rd[r].pc = "cmp"
    /\ rd' = [rd EXCEPT
                ![r].pc = "ret",
                ![r].result =
                    IF rd[r].entry = MHASH_EMPTY_SLOT THEN NULL
                    ELSE IF mhash_strcmp(args.keys[rd[r].entry + 1],
                                         rd[r].s) # 0 THEN NULL
                    ELSE ValuesAddress + rd[r].entry * rd[r].sizeof_value]
    /\ UNCHANGED <<probe, map, uint_bits, index_bits, nwc, args, ph, table,
                   worst_case, i, idx, pc, ret, stale, first, q, trials>>

\* The call returns to the thread.
ReadEnd(r) ==
    /\ rd[r].pc = "ret"
    /\ rd' = [rd EXCEPT ![r] = IdleReader]
    /\ UNCHANGED <<probe, map, uint_bits, index_bits, nwc, args, ph, table,
                   worst_case, i, idx, pc, ret, stale, first, q, trials>>

Read(r) ==
    ReadBegin(r) \/ ReadHash(r) \/ ReadLoad(r) \/ ReadCompare(r) \/ ReadEnd(r)

NextReaders ==
    \/ CallUniform \/ Clear \/ Check \/ Place \/ Finish
    \/ \E r \in Readers : Read(r)

SpecReaders == InitReaders /\ [][NextReaders]_vars

(* ------------------------------------ queries racing a construction -- *)
\* Nothing in mhash.h keeps a thread out of mhash_init while another
\* thread is inside a query, or out of a query while mhash_init runs.  One
\* thread calls mhash_init, again and again on the same structure and
\* buffer; thread 1 queries the structure once it has been filled in,
\* whatever the position of the other thread.  The statements of the two
\* threads interleave.
RaceCall ==
    /\ q = NoQuery
    /\ UNCHANGED q
    /\ rd' = [r \in Readers |->
                IF rd[r].pc = "idle" THEN rd[r]
                ELSE [rd[r] EXCEPT !.overlap = TRUE]]
    /\ Enter(IF pc = "idle" THEN UniformBuffers(args.table_size)
             ELSE {table})

RaceBegin(r) ==
    /\ ph.table # NULL
    /\ rd[r].pc = "idle"
    /\ \E op \in {"mhash_entry", "mhash_check_at"}, s \in Keys,
          sz \in ValueSizes :
         rd' = [rd EXCEPT ![r] = [IdleReader EXCEPT !.pc = "hash", !.op = op,
                                      !.s = s, !.sizeof_value = sz,
                                      !.overlap = (pc # "done")]]
    /\ UNCHANGED <<probe, map, uint_bits, index_bits, nwc, args, ph, table,
                   worst_case, i, idx, pc, ret, stale, first, q, trials>>

NextRacing ==
    \/ RaceCall \/ Clear \/ Check \/ Place \/ Finish
    \/ RaceBegin(1) \/ ReadHash(1) \/ ReadLoad(1) \/ ReadCompare(1)
    \/ ReadEnd(1)

SpecRacing == InitReaders /\ [][NextRacing]_vars

(* --------------------------------------------- a raised ceiling -- *)
\* The program is first built with the default ceiling
\* min(MHASH_MAX_HASHES, count); after a call has returned it is rebuilt
\* with MHASH_NO_WORST_CASE defined, which raises the ceiling to
\* MHASH_MAX_HASHES, and calls mhash_init with the same arguments.
InitCeilings ==
    /\ uint_bits = MHASH_UINT_BITS
    /\ index_bits = MHASH_INDEX_BITS
    /\ nwc = FALSE
    /\ args \in Arguments
    /\ Start

RaiseCeiling ==
    /\ pc = "done"
    /\ first # NoRun
    /\ ~nwc
    /\ nwc' = TRUE
    /\ UNCHANGED <<probe, map, uint_bits, index_bits, args, ph, table, worst_case, i, idx,
                   pc, ret, stale, first, trials, q, rd>>

NextCeilings ==
    Call \/ Clear \/ Check \/ Place \/ Finish \/ RaiseCeiling

SpecCeilings == InitCeilings /\ [][NextCeilings]_vars

(* ------------------------------------ a call with bad arguments -- *)
\* After a call has returned, the program calls mhash_init on the same
\* structure and buffer with one argument gone bad: a null pointer in place
\* of the structure, the table or the key array, or a table_size of 0.
SpoiledArguments(a) ==
    { [a EXCEPT !.ph = NULL], [a EXCEPT !.table = NULL],
      [a EXCEPT !.strings = NULL], [a EXCEPT !.table_size = 0] }

SpoilArguments ==
    /\ pc = "done"
    /\ ~BadArguments(args)
    /\ args' \in SpoiledArguments(args)
    /\ UNCHANGED <<probe, map, uint_bits, index_bits, nwc, ph, table,
                   worst_case, i, idx, pc, ret, stale, first, trials, q, rd>>

NextSpoiled ==
    CallUniform \/ Clear \/ Check \/ Place \/ Finish \/ SpoilArguments

SpecSpoiled == Init /\ [][NextSpoiled]_vars

(* ------------------------------------- the prefix hash, evaluated -- *)
\* A program that evaluates mhash_str_prefix directly, once, on two keys and
\* one id.  The keys are the strings of at most MaxKeyLen bytes over "a", "b".
ProbeAlphabet == {97, 98}
ProbeKeys == UNION { [1..k -> ProbeAlphabet] : k \in 0..MaxKeyLen }
ProbeIds == 0..2

EvaluatePrefix ==
    /\ probe = NoProbe
    /\ \E s \in ProbeKeys, t \in ProbeKeys, id \in ProbeIds :
         probe' = [id |-> id, s |-> s, t |-> t,
                   hs |-> mhash_str_prefix(s, id),
                   ht |-> mhash_str_prefix(t, id), n |-> 1]
    /\ UNCHANGED <<map, uint_bits, index_bits, nwc, args, ph, table,
                   worst_case, i, idx, pc, ret, stale, first, trials, q, rd>>

InitPrefix ==
    /\ uint_bits = MHASH_UINT_BITS
    /\ index_bits = MHASH_INDEX_BITS
    /\ nwc = FALSE
    /\ args \in ScenarioArguments(StrPrefix16)
    /\ Start

NextPrefix == EvaluatePrefix

SpecPrefix == InitPrefix /\ [][NextPrefix]_vars

(* --------------------------------------------------------- MHashMap -- *)
\* The growable map of mhash_str.h and the growth loop of tests/bench.c:
\* both call mhash_init with mhash_str_prefix over growing tables.  The
\* keys are "c", "i", "Dooda", "Doodb", "Doodoa" and "Doodob"; a program
\* inserts them in this order, repetitions included.
MapKeyList ==
    << <<99>>, <<105>>, <<68, 111, 111, 100, 97>>, <<68, 111, 111, 100, 98>>,
       <<68, 111, 111, 100, 111, 97>>, <<68, 111, 111, 100, 111, 98>> >>
MapKeys == { MapKeyList[k] : k \in 1..Len(MapKeyList) }
KeyNumber(s) == CHOOSE k \in 1..Len(MapKeyList) : MapKeyList[k] = s

\* mhash_str_prefix as the hash function of the 16-bit build.
StrPrefixMap ==
    [id \in 1..MHASH_MAX_HASHES |->
        [s \in MapKeys |-> mhash_str_prefix(s, id)]]

\* std::bit_width(n), and log2_floor(n) of bench.c: while (n >>= 1) ++r
RECURSIVE bit_width(_)
bit_width(n) == IF n = 0 THEN 0 ELSE 1 + bit_width(n \div 2)
RECURSIVE log2_floor(_)
log2_floor(n) == IF n \div 2 = 0 THEN 0 ELSE 1 + log2_floor(n \div 2)

\* Faulty variant: rebuild accepts any successful attempt but one with a
\* single hash (<= for <, against a constant).
MaxHashesOne(policy, n) == 2

\* max_hashes: bit_width(n) + 2 in rebuild, log2_floor(n) + 2 in bench.c.
MaxHashes(policy, n) ==
    IF policy = "rebuild" THEN bit_width(n) + 2 ELSE log2_floor(n) + 2

\* The next table size: ++table_size below 16, then
\* table_size + table_size / 5 + 1 in rebuild and
\* (size_t)(table_size * 1.2) + 1 in bench.c.
Grow(policy, table_size) ==
    IF table_size < 16 THEN table_size + 1
    ELSE IF policy = "rebuild" THEN table_size + table_size \div 5 + 1
    ELSE (table_size * 12) \div 10 + 1

\* The sizes at which the loop gives up: 65536 slots, 128 slots per key.
MaxSlots == 65536
MaxSlotsPerKey == 128
OverLimit(table_size, n) ==
    table_size > MaxSlots \/ table_size > MaxSlotsPerKey * n

\* table_.assign(table_size, MHASH_EMPTY_SLOT)
AssignTable(table_size) == [j \in 0..(table_size - 1) |-> MHASH_EMPTY_SLOT]

\* The arguments of the mhash_init call of one attempt.
MapArguments(keys, table_size) ==
    [ph |-> 1, table |-> 1, strings |-> 1, table_size |-> table_size,
     count |-> Len(keys), keys |-> keys, hash_func |-> StrPrefixMap]

\* The keys of entries_, in order (key_ptrs).
EntryKeys(entries) == [j \in 1..Len(entries) |-> entries[j].key]

\* insert(key, value): the pair is staged.  The value is a number that no
\* other pair of the program holds; a program inserts at most MaxCount
\* pairs.
MapInsert ==
    /\ map.pc = "idle" /\ map.policy = "rebuild"
    /\ map.inserted < MaxCount
    /\ \E key \in MapKeys :
         /\ \A k \in 1..Len(map.entries_) :
               KeyNumber(map.entries_[k].key) <= KeyNumber(key)
         /\ \A k \in 1..Len(map.staged_keys_) :
               KeyNumber(map.staged_keys_[k]) <= KeyNumber(key)
         /\ map' = [map EXCEPT
                      !.staged_keys_ = Append(@, key),
                      !.staged_values_ = Append(@, 100 + map.inserted),
                      !.inserted = @ + 1,
                      !.op = "none"]
    /\ UNCHANGED <<probe, uint_bits, index_bits, nwc, args, ph, table,
                   worst_case, i, idx, pc, ret, stale, first, trials, q, rd>>

\* build(): returns at once if nothing is staged; otherwise moves the
\* staged pairs to entries_ and enters rebuild, which sizes the table at
\* 3 * n and goes to its first attempt.
MapBuild ==
    /\ map.pc = "idle" /\ map.policy = "rebuild"
    /\ pc \in {"idle", "done"}
    /\ IF map.staged_keys_ = <<>>
       THEN /\ map' = [map EXCEPT !.last_build = "returned", !.op = "none"]
            /\ UNCHANGED <<args, table, pc>>
       ELSE LET entries ==
                    map.entries_ \o
                    [j \in 1..Len(map.staged_keys_) |->
                        [key |-> map.staged_keys_[j],
                         value |-> map.staged_values_[j]]]
                n == Len(entries)
            IN /\ map' = [map EXCEPT
                            !.entries_ = entries,
                            !.staged_keys_ = <<>>,
                            !.staged_values_ = <<>>,
                            !.pc = "attempt",
                            !.table_size = 3 * n,
                            !.attempts = <<>>,
                            !.exit = "none",
                            !.last_build = "none",
                            !.rebuilt = TRUE,
                            !.op = "none"]
               /\ table' = AssignTable(3 * n)
               /\ args' = MapArguments(EntryKeys(entries), 3 * n)
               /\ pc' = "idle"
    /\ UNCHANGED <<probe, uint_bits, index_bits, nwc, ph, worst_case, i,
                   idx, ret, stale, first, trials, q, rd>>

\* The loop of tests/bench.c, which defines MHASH_NO_WORST_CASE: n >= 2
\* distinct keys and a malloc'ed table of 3 * n slots.
BenchKeys(n) ==
    { [j \in 1..n |-> MapKeyList[x[j]]] :
        x \in { y \in [1..n -> 1..Len(MapKeyList)] :
                 \A j \in 1..(n - 1) : y[j] < y[j + 1] } }

BenchStart ==
    /\ map = NewMap /\ pc = "idle" /\ nwc
    /\ \E n \in 2..MaxCount :
         /\ \E keys \in BenchKeys(n) :
              args' = MapArguments(keys, 3 * n)
         /\ table' \in UniformBuffers(3 * n)
         /\ map' = [map EXCEPT !.policy = "bench", !.pc = "attempt",
                               !.table_size = 3 * n, !.rebuilt = TRUE]
    /\ UNCHANGED <<probe, uint_bits, index_bits, nwc, ph, worst_case, i,
                   idx, pc, ret, stale, first, trials, q, rd>>

\* mhash_init(&mhash_, table_.data(), table_size, key_ptrs.data(), n,
\* mhash_str_prefix), on the table as the loop has left it.
MapCall ==
    /\ map.pc = "attempt"
    /\ pc = "idle"
    /\ CallOn({table})

\* The rest of the loop body, after mhash_init has returned: stop on a
\* success with few enough hashes; otherwise grow the table, and give up
\* above the limits, throwing (bench.c: abandoning the repetition) if the
\* last attempt failed; otherwise resize the table for the next attempt.
\* realloc leaves the added slots indeterminate.
MapDecide ==
    /\ map.pc = "attempt"
    /\ pc = "done"
    /\ LET success == ret = MHASH_OK
           n == args.count
           attempts ==
               Append(map.attempts,
                      [table_size |-> ph.table_size, success |-> success,
                       num_hashes |-> ph.num_hashes])
           table_size == Grow(map.policy, map.table_size)
       IN IF success /\ ph.num_hashes < MaxHashes(map.policy, n)
          THEN /\ map' = [map EXCEPT !.pc = "idle", !.attempts = attempts,
                                     !.exit = "break",
                                     !.last_build = "returned"]
               /\ UNCHANGED <<args, table, pc>>
          ELSE IF OverLimit(table_size, n)
          THEN /\ map' = [map EXCEPT
                            !.pc = "idle", !.attempts = attempts,
                            !.table_size = table_size,
                            !.exit = IF success THEN "break"
                                     ELSE IF map.policy = "rebuild"
                                     THEN "throw" ELSE "goto",
                            !.last_build = IF success THEN "returned"
                                           ELSE "thrown"]
               /\ UNCHANGED <<args, table, pc>>
          ELSE /\ map' = [map EXCEPT !.attempts = attempts,
                                     !.table_size = table_size]
               /\ IF map.policy = "rebuild"
                  THEN table' = AssignTable(table_size)
                  ELSE \E v \in StaleValues :
                         table' = [j \in 0..(table_size - 1) |->
                                      IF j \in DOMAIN table THEN table[j]
                                      ELSE v]
               /\ args' = [args EXCEPT !.table_size = table_size]
               /\ pc' = "idle"
    /\ UNCHANGED <<probe, uint_bits, index_bits, nwc, ph, worst_case, i,
                   idx, ret, stale, first, trials, q, rd>>

\* What get does on a structure whose table_size is 0: the remainder by
\* (MHASH_UINT)0 is undefined; the division traps (-1), or it yields a
\* value and the load through the null table pointer traps (-2).
Faults == {0 - 1, 0 - 2}

\* get(key) on a structure with table_size > 0.
MapGetResult(h, t, entries, key) ==
    LET pos == MHashMap_mhash_entry_pos(h, key)
        entry_idx == Load(t, pos)
    IN IF entry_idx = MHASH_EMPTY_SLOT THEN NULL
       ELSE IF entries[entry_idx + 1].key # key THEN NULL
       ELSE entry_idx + 1

MapGet ==
    /\ map.pc = "idle" /\ map.policy = "rebuild"
    /\ pc \in {"idle", "done"}
    /\ \E key \in MapKeys :
         IF ph.table_size = 0
         THEN \E fault \in Faults :
                map' = [map EXCEPT !.pc = "fault", !.op = "get",
                                   !.key = key, !.result = fault]
         ELSE map' = [map EXCEPT
                        !.op = "get", !.key = key,
                        !.result = MapGetResult(ph, table, map.entries_, key)]
    /\ UNCHANGED <<probe, uint_bits, index_bits, nwc, args, ph, table,
                   worst_case, i, idx, pc, ret, stale, first, trials, q, rd>>

\* clear(): cleanup() empties table_ and zeroes mhash_; the vectors are
\* emptied.
MapClear ==
    /\ map.pc = "idle" /\ map.policy = "rebuild"
    /\ pc \in {"idle", "done"}
    /\ map' = [NewMap EXCEPT !.cleared = TRUE, !.inserted = map.inserted]
    /\ table' = <<>>
    /\ ph' = ZeroMHash
    /\ UNCHANGED <<probe, uint_bits, index_bits, nwc, args, worst_case, i,
                   idx, pc, ret, stale, first, trials, q, rd>>

InitMap ==
    /\ uint_bits = MHASH_UINT_BITS
    /\ index_bits = MHASH_INDEX_BITS
    /\ nwc \in BOOLEAN
    /\ args = MapArguments(<<>>, 0)
    /\ Start

\* The statements of a running build.
MapRuns == MapCall \/ Clear \/ Check \/ Place \/ Finish \/ MapDecide

NextMap ==
    \/ MapInsert \/ MapBuild \/ MapGet \/ MapClear \/ BenchStart
    \/ MapCall \/ Clear \/ Check \/ Place \/ Finish \/ MapDecide

\* Every program over one MHashMap, and every run of the loop of bench.c.
SpecMap == InitMap /\ [][NextMap]_vars

NextRebuild ==
    \/ MapInsert \/ MapBuild \/ BenchStart
    \/ MapCall \/ Clear \/ Check \/ Place \/ Finish \/ MapDecide

\* The programs that insert and build, and the loop of bench.c; a build or
\* a loop, once entered, keeps executing its statements.
SpecRebuild == InitMap /\ [][NextRebuild]_vars /\ WF_vars(MapRuns)

(* ------------------------- a table larger than the hash type holds -- *)
\* Builds whose MHASH_UINT is uint8_t, constructing in tables of about 2^8
\* slots: 256 and 512 do not fit the type and truncate to 0, 257 truncates
\* to 1, 255 fits.
TinyBits == 8
TinySizes == {2^TinyBits - 1, 2^TinyBits, 2^TinyBits + 1, 2 * 2^TinyBits}

TinyArguments ==
    { a \in [ph : {1}, table : {1}, strings : {1},
             table_size : TinySizes, count : 0..MaxCount,
             keys : UNION { KeyArrays(n) : n \in 0..MaxCount },
             hash_func : mhash_func] :
        Len(a.keys) = a.count }

\* The configured 16-bit build constructing over two keys in a table of
\* 2^16 slots, the largest size MHashMap::rebuild tries; the first hash
\* function sends both keys to one value, the second tells them apart.
WholeRangeHash ==
    [id \in HashIds |->
        [s \in Keys |-> IF id = 1 \/ s = KeyList[1] THEN 1 ELSE 2]]

WholeRangeArguments ==
    [ph |-> 1, table |-> 1, strings |-> 1,
     table_size |-> 2^MHASH_UINT_BITS, count |-> 2,
     keys |-> <<KeyList[1], KeyList[2]>>, hash_func |-> WholeRangeHash]

InitModulus ==
    /\ index_bits = MHASH_INDEX_BITS
    /\ nwc \in BOOLEAN
    /\ \/ uint_bits = TinyBits /\ args \in TinyArguments
       \/ uint_bits = MHASH_UINT_BITS /\ args = WholeRangeArguments
    /\ Start

\* mhash_entry where the modulus is not 0.
QueryEntryDivides ==
    /\ Modulus(ph.table_size) # 0
    /\ QueryEntryIn(Keys)

\* mhash_entry where (MHASH_UINT)ph->table_size is 0: the remainder of
\* line 113 is undefined, with the outcomes of PlaceByZero.
QueryEntryByZero ==
    /\ Queryable
    /\ q = NoQuery
    /\ Modulus(ph.table_size) = 0
    /\ \/ pc' = "fault" /\ UNCHANGED q
       \/ /\ \E s \in Keys :
               LET hash == mhash__concat(ph.hash_func, ph.num_hashes, s)
               IN q' = [op |-> "mhash_entry", s |-> s, idx |-> hash,
                        hash_calls |-> mhash__concat_calls(ph.num_hashes),
                        result |-> Load(table, hash)]
          /\ UNCHANGED pc
    /\ UNCHANGED <<probe, map, uint_bits, index_bits, nwc, args, ph, table,
                   worst_case, i, idx, ret, stale, first, rd, trials>>

NextModulus ==
    \/ CallUniform \/ Clear \/ Check \/ Place \/ PlaceByZero \/ Finish
    \/ QueryEntryDivides \/ QueryEntryByZero \/ QueryReturn

SpecModulus == InitModulus /\ [][NextModulus]_vars

(* =========================================================== claims == *)
\* The last mhash_init call has returned MHASH_OK.
Built == pc = "done" /\ ret = MHASH_OK

\* The arguments pass mhash_init's validation.
ValidArguments ==
    /\ args.ph # NULL /\ args.table # NULL /\ args.strings # NULL
    /\ args.table_size > 0

\* The last mhash_init call passed validation and has returned.
Returned == pc = "done" /\ ValidArguments

\* The slot of key number j (1-based) of the construction array under h
\* combined hash functions.
KeySlot(j, h) ==
    SlotIndex(args.hash_func, h, args.table_size, args.keys[j])

\* Placing all construction keys with h hash functions is collision-free.
CollisionFree(h) ==
    \A j, k \in 1..args.count : j # k => KeySlot(j, h) # KeySlot(k, h)

\* The ceiling on num_hashes of the build configuration.
Ceiling ==
    IF nwc \/ MHASH_MAX_HASHES <= args.count THEN MHASH_MAX_HASHES
    ELSE args.count

\* The construction keys.
ConstructionKeys == { args.keys[j] : j \in 1..args.count }

\* C1: after mhash_init returns MHASH_OK, the slot of every construction
\* key k_i under the resolved num_hashes holds i, and the slots of the
\* construction keys are pairwise distinct.
C1_SlotHoldsId ==
    Built =>
        /\ \A j \in 1..ph.count :
             table[KeySlot(j, ph.num_hashes)] = j - 1
        /\ \A j, k \in 1..ph.count :
             j # k => KeySlot(j, ph.num_hashes) # KeySlot(k, ph.num_hashes)

\* Two keys were placed after a first trial that collided.
C1_Witness ==
    /\ Built /\ ph.count = 2 /\ ph.num_hashes >= 2
    /\ table[KeySlot(2, ph.num_hashes)] = 1

\* C2: round trip. After MHASH_OK, mhash_check_at on a construction key
\* k_i, given the original key array and mhash_strcmp, returns the
\* non-null address values + i * sizeof_value.
C2_RoundTrip ==
    (Built /\ q.op = "mhash_check_at" /\ q.keys = args.keys) =>
        \A j \in 1..args.count :
            q.s = args.keys[j] =>
                /\ q.result # NULL
                /\ q.result = ValuesAddress + (j - 1) * q.sizeof_value

\* The second of two construction keys was looked up.
C2_Witness ==
    /\ Built /\ q.op = "mhash_check_at" /\ q.keys = args.keys
    /\ args.count = 2 /\ q.s = args.keys[2]
    /\ q.result = ValuesAddress + q.sizeof_value

\* C3: no false positives. After MHASH_OK, mhash_check_at returns non-null
\* only if the slot of the query key holds an entry e and the comparator
\* reports the query key equal to keys[e]; given the original key array it
\* returns NULL for every query key that is no construction key.
C3_NoFalsePositive ==
    (Built /\ q.op = "mhash_check_at") =>
        /\ q.result # NULL =>
             LET e == table[mhash_entry_pos(ph, q.s)]
             IN /\ e # MHASH_EMPTY_SLOT
                /\ mhash_strcmp(q.keys[e + 1], q.s) = 0
                /\ q.keys[e + 1] = q.s
        /\ (q.keys = args.keys /\ q.s \notin ConstructionKeys) =>
             q.result = NULL

\* A key outside the construction set hit the slot of a construction key
\* and was rejected.
C3_Witness ==
    /\ Built /\ q.op = "mhash_check_at" /\ q.keys = args.keys
    /\ q.s \notin ConstructionKeys
    /\ table[mhash_entry_pos(ph, q.s)] # MHASH_EMPTY_SLOT
    /\ q.result = NULL

\* C4: after MHASH_OK, mhash_entry on construction key k_i returns i, a
\* dense id below count, the id mhash_check_at resolves for k_i.
C4_EntryIsDenseId ==
    (Built /\ q.op = "mhash_entry") =>
        \A j \in 1..args.count :
            q.s = args.keys[j] =>
                /\ q.result = j - 1
                /\ q.result \in 0..(ph.count - 1)
                /\ \A sz \in ValueSizes :
                     mhash_check_at(ph, table, q.s, args.keys, ValuesAddress, sz)
                         = ValuesAddress + q.result * sz

\* mhash_entry was called on the second of two construction keys, which
\* does not lie in slot 1.
C4_Witness ==
    /\ Built /\ q.op = "mhash_entry" /\ args.count = 2
    /\ q.s = args.keys[2] /\ q.result = 1
    /\ mhash_entry_pos(ph, q.s) # 1

\* C5: for valid arguments mhash_init returns MHASH_FAILED if and only if
\* no h in 1..ceiling places all keys collision-free, the ceiling being
\* min(MHASH_MAX_HASHES, count), or MHASH_MAX_HASHES when
\* MHASH_NO_WORST_CASE is defined.
C5_FailsIffNoTrialFits ==
    Returned =>
        (ret = MHASH_FAILED <=> ~ \E h \in 1..Ceiling : CollisionFree(h))

\* The search failed at the ceiling although a larger number of hash
\* functions would have placed the keys.
C5_Witness ==
    /\ Returned /\ ret = MHASH_FAILED /\ args.count = 2
    /\ \E h \in (Ceiling + 1)..MHASH_MAX_HASHES : CollisionFree(h)

\* C6: on MHASH_OK the resolved num_hashes lies in 1..ceiling and is the
\* smallest h >= 1 whose placement is collision-free.
C6_SmallestNumHashes ==
    Built =>
        /\ ph.num_hashes \in 1..Ceiling
        /\ CollisionFree(ph.num_hashes)
        /\ \A h \in 1..(ph.num_hashes - 1) : ~CollisionFree(h)

\* The search succeeded on its third trial.
C6_Witness ==
    /\ Built /\ ph.num_hashes = 3 /\ ~CollisionFree(1) /\ ~CollisionFree(2)

\* C7: when mhash_init returns MHASH_FAILED because the ceiling was
\* reached, every slot of the table holds MHASH_EMPTY_SLOT.
C7_FailedTableCleared ==
    (Returned /\ ret = MHASH_FAILED) =>
        \A j \in 0..(args.table_size - 1) : table[j] = MHASH_EMPTY_SLOT

\* The search was exhausted after trials that had placed keys, on a buffer
\* that held old entries.
C7_Witness ==
    /\ Returned /\ ret = MHASH_FAILED /\ stale
    /\ ph.num_hashes >= 2 /\ args.table_size >= 2

\* C8: mhash_init returns MHASH_FAILED whenever the structure pointer, the
\* table pointer or the key array pointer is null or table_size is 0.
C8_BadArgumentsFail ==
    (pc = "done" /\ ~ValidArguments) => ret = MHASH_FAILED

\* A call with a null key array and otherwise placeable keys has returned.
C8_Witness ==
    /\ pc = "done" /\ args.strings = NULL /\ args.table_size > 0
    /\ args.count = 2 /\ CollisionFree(1) /\ ret = MHASH_FAILED

\* C9: pigeonhole. With 0 < table_size < count mhash_init returns
\* MHASH_FAILED, for every hash function and ceiling.
C9_Pigeonhole ==
    (Returned /\ args.table_size < args.count) => ret = MHASH_FAILED

\* A construction of more keys than slots ran all its trials and failed.
C9_Witness ==
    /\ Returned /\ args.table_size < args.count /\ ret = MHASH_FAILED
    /\ ph.num_hashes = MHASH_MAX_HASHES

\* C10: determinism. Every mhash_init call of a program (same keys, order,
\* table_size and hash function) returns the status, the num_hashes and
\* the table contents of its first call, whatever the buffer and the
\* structure held before the call.
C10_Deterministic ==
    (Returned /\ first # NoRun) =>
        /\ first.ret = ret
        /\ first.num_hashes = ph.num_hashes
        /\ first.table = table

\* A later call, made on a buffer whose earlier contents differ from the
\* first call's, has returned MHASH_OK after more than one trial.
C10_Witness ==
    /\ Built /\ first # NoRun /\ first.stale # stale
    /\ ph.num_hashes >= 2

\* C11: every slot index computed by mhash_init or by a query lies in
\* 0..table_size-1, so that construction writes and queries read only
\* table[0..table_size-1]; the buffer has exactly table_size slots.
C11_SlotIndexInTable ==
    ValidArguments =>
        /\ idx \in 0..(args.table_size - 1)
        /\ pc # "idle" => DOMAIN table = 0..(args.table_size - 1)
        /\ q # NoQuery => q.idx \in 0..(ph.table_size - 1)

\* mhash_init has written the last slot of the largest table, and a query
\* has read it.
C11_Witness ==
    /\ Built /\ args.table_size = MaxTableSize
    /\ idx = args.table_size - 1
    /\ table[idx] = args.count - 1
    /\ q # NoQuery /\ q.op # "mhash_entry_pos" /\ q.idx = idx

\* C12: from the first clearing of the table on, during and after
\* mhash_init, every slot holds MHASH_EMPTY_SLOT or a dense id below count,
\* and no dense id written by mhash_init equals MHASH_EMPTY_SLOT, for every
\* count that passes validation.
C12_SlotsEmptyOrDenseId ==
    (ValidArguments /\ pc \in {"check", "place", "done"}) =>
        /\ \A j \in DOMAIN table :
             table[j] = MHASH_EMPTY_SLOT \/ table[j] \in 0..(args.count - 1)
        /\ pc = "place" =>
             \A k \in 0..(i - 1) : DenseId(k) # MHASH_EMPTY_SLOT

\* C13: on a structure left by a call that passed validation, returning
\* MHASH_OK or MHASH_FAILED, mhash_check_at returns NULL without reading
\* the key array (so without calling the comparator) when the slot holds
\* MHASH_EMPTY_SLOT; otherwise it reads the key array at one entry below
\* count, and a non-null result is the address of the value at that entry.
C13_CheckAtAccesses ==
    (Queryable /\ q.op = "mhash_check_at") =>
        IF table[q.idx] = MHASH_EMPTY_SLOT
        THEN q.result = NULL /\ q.key_reads = {}
        ELSE /\ q.key_reads = {table[q.idx]}
             /\ q.key_reads \subseteq 0..(ph.count - 1)
             /\ q.result # NULL =>
                  \E e \in 0..(ph.count - 1) :
                      q.result = ValuesAddress + e * q.sizeof_value

\* mhash_check_at was called on the all-empty table left by an exhausted
\* search over a buffer that held old entries.
C13_Witness ==
    /\ Returned /\ ret = MHASH_FAILED /\ stale /\ args.count = MaxCount
    /\ q.op = "mhash_check_at" /\ q.result = NULL /\ q.key_reads = {}

\* C14: with no construction in flight, every interleaving of the
\* statements of concurrent mhash_entry and mhash_check_at calls gives each
\* call the result the call returns when it runs alone, and no statement of
\* a query changes the table or a field of the structure.
C14_ReadersIndependent ==
    /\ [](\A r \in Readers :
            rd[r].pc = "ret" =>
                rd[r].result =
                    IF rd[r].op = "mhash_entry"
                    THEN mhash_entry(ph, table, rd[r].s)
                    ELSE mhash_check_at(ph, table, rd[r].s, args.keys,
                                        ValuesAddress, rd[r].sizeof_value))
    /\ [][rd' # rd => (pc = "done" /\ UNCHANGED <<ph, table, pc>>)]_vars

\* Two calls are at their return statements together, mhash_entry with the
\* id of the last construction key and mhash_check_at with the address of
\* its value, the two threads having computed different slot indices.
C14_Witness ==
    /\ Built
    /\ rd[1].pc = "ret" /\ rd[1].op = "mhash_check_at"
    /\ rd[1].result = ValuesAddress + (MaxCount - 1) * rd[1].sizeof_value
    /\ rd[2].pc = "ret" /\ rd[2].op = "mhash_entry"
    /\ rd[2].result = 0 /\ rd[2].idx # rd[1].idx

\* The program runs scenario A, scenario B.
ScenarioA == args.keys = ScenarioAKeys /\ args.table_size = 37
ScenarioB == args.keys = ScenarioBKeys /\ args.table_size = 5

\* C15: scenario A. mhash_init over "Apple", "Banana", "Cherry", "Date",
\* "Doodoo", "D" with table_size 37 and mhash_str_prefix returns MHASH_OK
\* with num_hashes <= 6; then mhash_check_at("Cherry") returns the address
\* of values[2], mhash_check_at("Unknown") returns NULL and
\* mhash_entry("Cherry") returns 2.
C15_ScenarioA ==
    (ScenarioA /\ pc = "done") =>
        /\ ret = MHASH_OK
        /\ ph.num_hashes \in 1..6
        /\ (q.op = "mhash_check_at" /\ q.s = Cherry) =>
               q.result = ValuesAddress + 2 * q.sizeof_value
        /\ (q.op = "mhash_check_at" /\ q.s = Unknown) => q.result = NULL
        /\ (q.op = "mhash_entry" /\ q.s = Cherry) => q.result = 2

\* Scenario A was built by the 64-bit build and "Cherry" was looked up.
C15_Witness ==
    /\ ScenarioA /\ Built /\ uint_bits = WideBits
    /\ q.op = "mhash_check_at" /\ q.s = Cherry
    /\ q.result = ValuesAddress + 2 * q.sizeof_value

\* C16: scenario B. mhash_init over "D", "Doodoo" with mhash_str_prefix and
\* table_size 5 returns MHASH_OK under the default ceiling
\* min(MHASH_MAX_HASHES, count) = 2, the two keys lying in distinct slots.
C16_ScenarioB ==
    (ScenarioB /\ pc = "done") =>
        /\ ret = MHASH_OK
        /\ ph.num_hashes \in 1..2
        /\ KeySlot(1, ph.num_hashes) # KeySlot(2, ph.num_hashes)
        /\ table[KeySlot(1, ph.num_hashes)] = 0
        /\ table[KeySlot(2, ph.num_hashes)] = 1

\* Scenario B was built under the default ceiling after the first trial
\* had put both keys in one slot.
C16_Witness ==
    /\ ScenarioB /\ Built /\ ~nwc /\ worst_case = 2
    /\ ph.num_hashes = 2 /\ KeySlot(1, 1) = KeySlot(2, 1)

\* C17: monotonic trial order. num_hashes changes only at the entry of
\* mhash_init, which sets it to 0, and at the start of a trial, which adds
\* exactly one; every trial starts with all table_size slots holding
\* MHASH_EMPTY_SLOT, and during a trial the only non-empty slots are those
\* of the keys placed by this trial.
C17_TrialOrder ==
    /\ [][
          /\ ph'.num_hashes # ph.num_hashes =>
                \/ /\ pc = "check" /\ pc' = "place"
                   /\ ph'.num_hashes = ph.num_hashes + 1
                \/ /\ pc \in {"idle", "done"} /\ pc' = "clear"
                   /\ ph'.num_hashes = 0
          /\ (pc = "check" /\ pc' = "place") =>
                /\ ph'.num_hashes = ph.num_hashes + 1
                /\ i' = 0
                /\ DOMAIN table' = 0..(ph.table_size - 1)
                /\ \A j \in DOMAIN table' : table'[j] = MHASH_EMPTY_SLOT
       ]_vars
    /\ [](pc = "place" =>
            \A j \in DOMAIN table :
                table[j] # MHASH_EMPTY_SLOT =>
                    /\ table[j] \in 0..(i - 1)
                    /\ KeySlot(table[j] + 1, ph.num_hashes) = j)

\* The third trial starts, on a buffer that held old entries, after two
\* trials that each placed the first key and collided on the second.
C17_Witness ==
    /\ pc = "place" /\ i = 0 /\ ph.num_hashes = 3 /\ stale
    /\ args.count = 2 /\ args.table_size = MaxTableSize
    /\ \A j \in DOMAIN table : table[j] = MHASH_EMPTY_SLOT

\* The sequence a is an initial part of the sequence b.
IsPrefix(a, b) ==
    Len(a) <= Len(b) /\ \A k \in 1..Len(a) : a[k] = b[k]

\* C18: raising only the ceiling reproduces the trial sequence. For the
\* same keys, table_size and hash function, the trials run under the
\* ceiling c of the first call are an initial part of the trials run under
\* a raised ceiling, trial by trial with the same slot indices; if the call
\* under c returned MHASH_OK, the call under the raised ceiling returns
\* MHASH_OK with the same num_hashes and the same table contents.
C18_CeilingRaised ==
    (Returned /\ first # NoRun /\ ~first.nwc /\ nwc) =>
        /\ IsPrefix(first.trials, trials)
        /\ first.ret = MHASH_OK =>
             /\ ret = MHASH_OK
             /\ ph.num_hashes = first.num_hashes
             /\ table = first.table
             /\ trials = first.trials

\* The search that was exhausted after count trials under the default
\* ceiling succeeded, under the raised ceiling, with one more trial.
C18_Witness ==
    /\ Returned /\ first # NoRun /\ ~first.nwc /\ nwc
    /\ first.ret = MHASH_FAILED /\ Len(first.trials) = 2
    /\ ret = MHASH_OK /\ Len(trials) = 3
    /\ IsPrefix(first.trials, trials)

\* C19: query and construction agree on the slot function. On a structure
\* filled in by mhash_init, the slot computed by mhash_entry_pos, by
\* mhash_entry, by mhash_check_at and by MHashMap's private
\* mhash_entry_pos is the slot mhash_init computes for the key at the
\* structure's num_hashes, table_size and hash function; for a key of a
\* successful construction it is the slot index the last trial computed.
C19_SlotFunctionsAgree ==
    Queryable =>
        /\ \A s \in Keys :
             LET slot == SlotIndex(ph.hash_func, ph.num_hashes,
                                   ph.table_size, s)
             IN /\ mhash_entry_pos(ph, s) = slot
                /\ mhash_entry_idx(ph, s) = slot
                /\ mhash_check_at_idx(ph, s) = slot
                /\ MHashMap_mhash_entry_pos(ph, s) = slot
        /\ q # NoQuery =>
             q.idx = SlotIndex(ph.hash_func, ph.num_hashes, ph.table_size,
                               q.s)
        /\ ret = MHASH_OK =>
             \A j \in 1..ph.count :
                 mhash_entry_pos(ph, args.keys[j]) = trials[Len(trials)][j]

\* The second key of a construction that needed a second trial was looked
\* up in the slot the second trial gave it, not the slot of the first.
C19_Witness ==
    /\ Built /\ ph.count = 2 /\ ph.num_hashes = 2
    /\ q.op = "mhash_check_at" /\ q.s = args.keys[2]
    /\ q.idx = trials[2][2] /\ q.idx # trials[1][2]

\* Bit b of limb k of a value of type MHASH_UINT.
WordBit(w, k, b) ==
    ((IF uint_bits = WideBits THEN w[k] ELSE Word64(w)[k]) \div 2^b) % 2

\* The fold of the combiner over the ids n, n-1, ..., 1, in this order.
RECURSIVE FoldDown(_, _, _, _)
FoldDown(hash_func, n, s, acc) ==
    IF n = 0 THEN acc
    ELSE FoldDown(hash_func, n - 1, s, XorWord(acc, CallHash(hash_func, s, n)))

\* The keys hashed in this state: the key mhash_init has just placed or
\* collided on, and the key of the query made.
HashedKeys ==
    (IF pc \in {"place", "clear"} /\ trials # <<>> /\ trials[Len(trials)] # <<>>
     THEN {args.keys[Len(trials[Len(trials)])]} ELSE {})
    \cup (IF q # NoQuery THEN {q.s} ELSE {})

\* C20: for every key hashed by mhash_init or by a query and every n,
\* mhash__concat(hash, n, key) is the XOR of hash(key, id) over exactly
\* the ids 1..n (each bit is the parity of that bit over the n parts),
\* whatever the order of the fold, is 0 for n = 0, and
\* combined(key, n+1) = combined(key, n) XOR hash(key, n+1).
C20_ConcatIsXor ==
    \A s \in HashedKeys, n \in 0..MHASH_MAX_HASHES :
        LET combined == mhash__concat(args.hash_func, n, s)
        IN /\ \A k \in 1..4, b \in 0..15 :
                WordBit(combined, k, b) =
                    Cardinality({ id \in 1..n :
                        WordBit(CallHash(args.hash_func, s, id), k, b) = 1 })
                        % 2
           /\ combined = FoldDown(args.hash_func, n, s, ZeroWord)
           /\ n = 0 => combined = ZeroWord
           /\ n < MHASH_MAX_HASHES =>
                mhash__concat(args.hash_func, n + 1, s) =
                    XorWord(combined, CallHash(args.hash_func, s, n + 1))

\* mhash_init has placed "Doodoo" by the combination of two 64-bit hash
\* words that differ from each other and from their combination.
C20_Witness ==
    /\ uint_bits = WideBits /\ pc = "place" /\ ph.num_hashes = 2 /\ i = 2
    /\ args.keys[2] = Doodoo
    /\ idx = ModWord(mhash__concat(ph.hash_func, 2, Doodoo), ph.table_size)
    /\ CallHash(ph.hash_func, Doodoo, 1) # CallHash(ph.hash_func, Doodoo, 2)
    /\ mhash__concat(ph.hash_func, 2, Doodoo)
           # CallHash(ph.hash_func, Doodoo, 2)

\* The first n bytes of the key s, or all of s if it is shorter.
Take(s, n) == SubSeq(s, 1, IF n < Len(s) THEN n ELSE Len(s))

\* C21 as stated: mhash_str_prefix(key, id) depends only on id and on the
\* first id+1 bytes of the key (or on the whole key if it is shorter): two
\* keys that agree on their first id+1 bytes have the same hash for that id.
C21_PrefixOfIdPlusOne ==
    (probe.n = 1 /\ Take(probe.s, probe.id + 1) = Take(probe.t, probe.id + 1))
        => probe.hs = probe.ht

\* C21 as amended: mhash_str_prefix(key, id) depends only on id and on the
\* first id+2 bytes of the key (or on the whole key if it is shorter): two
\* keys that agree on their first id+2 bytes have the same hash for that id.
C21_PrefixOfIdPlusTwo ==
    (probe.n = 1 /\ Take(probe.s, probe.id + 2) = Take(probe.t, probe.id + 2))
        => probe.hs = probe.ht

\* Two keys that agree on their first 3 bytes and differ in the 4th were
\* hashed with id 1, to the same value.
C21_Witness ==
    /\ probe.n = 1 /\ probe.id = 1
    /\ Len(probe.s) = 4 /\ Len(probe.t) = 4
    /\ Take(probe.s, 3) = Take(probe.t, 3) /\ probe.s[4] # probe.t[4]
    /\ probe.hs = probe.ht

\* The number of keys placed or collided on by the trials t.
RECURSIVE Placements(_)
Placements(t) ==
    IF t = <<>> THEN 0 ELSE Len(Head(t)) + Placements(Tail(t))

\* C22: every mhash_init call with valid arguments terminates, after at
\* most ceiling trials (ceiling <= MHASH_MAX_HASHES) and at most
\* ceiling * count key placements in total; every mhash_entry and
\* mhash_check_at call makes exactly num_hashes hash-function evaluations
\* and at most one comparator call.
C22_Terminates ==
    /\ (pc \in {"clear", "check", "place"}) ~> (pc = "done")
    /\ [](ValidArguments =>
            /\ Ceiling <= MHASH_MAX_HASHES
            /\ Len(trials) <= Ceiling
            /\ Placements(trials) <= Ceiling * args.count)
    /\ [](q # NoQuery =>
            /\ q.hash_calls = ph.num_hashes
            /\ q.op = "mhash_check_at" => q.cmp_calls \in {0, 1})

\* A call ran as many trials as the ceiling allows, each colliding on its
\* last key, and returned; mhash_check_at then made as many hash
\* evaluations and no comparator call.
C22_Witness ==
    /\ Returned /\ ret = MHASH_FAILED /\ nwc /\ args.count = MaxCount
    /\ Len(trials) = MHASH_MAX_HASHES
    /\ Placements(trials) = MHASH_MAX_HASHES * args.count
    /\ q.op = "mhash_check_at" /\ q.hash_calls = MHASH_MAX_HASHES
    /\ q.cmp_calls = 0

\* C23: mhash_init makes exactly one attempt at the table_size it was
\* given: from its entry on, the structure's table_size and table are the
\* arguments and the buffer has table_size slots; no statement of the call
\* changes them; every trial reduces the combined hash modulo the given
\* table_size; and when it returns MHASH_OK the structure's table,
\* table_size, count and hash_func fields equal the arguments.
C23_OneAttempt ==
    /\ []((ValidArguments /\ pc # "idle") =>
            /\ ph.table_size = args.table_size
            /\ ph.table = args.table
            /\ DOMAIN table = 0..(args.table_size - 1))
    /\ [][
          /\ pc \in {"clear", "check", "place"} =>
                /\ ph'.table_size = ph.table_size
                /\ ph'.table = ph.table
                /\ DOMAIN table' = DOMAIN table
          /\ (pc = "place" /\ i < ph.count /\ idx' # idx) =>
                idx' = SlotIndex(args.hash_func, ph.num_hashes,
                                 args.table_size, args.keys[i + 1])
       ]_vars
    /\ [](Built =>
            /\ ph.table = args.table
            /\ ph.table_size = args.table_size
            /\ ph.count = args.count
            /\ ph.hash_func = args.hash_func)

\* A call on the largest table returned MHASH_OK after a trial that had
\* collided, count differing from table_size.
C23_Witness ==
    /\ Built /\ args.table_size = MaxTableSize /\ args.count = MaxCount
    /\ args.count # args.table_size
    /\ Len(trials) >= 2 /\ ph.table_size = MaxTableSize

\* Two positions of the key array hold keys with identical bytes.
HasDuplicate ==
    \E j, k \in 1..args.count : j # k /\ args.keys[j] = args.keys[k]

\* C24: duplicate keys are not detected but always fail. If two input
\* positions hold keys with identical bytes, mhash_init passes validation
\* and returns MHASH_FAILED, for every table_size and every ceiling, with
\* every slot of the table left empty.
C24_DuplicatesFail ==
    (Returned /\ HasDuplicate) =>
        /\ ret = MHASH_FAILED
        /\ \A j \in 0..(args.table_size - 1) : table[j] = MHASH_EMPTY_SLOT

\* Every slot of the table holds MHASH_EMPTY_SLOT.
AllEmpty == \A j \in DOMAIN table : table[j] = MHASH_EMPTY_SLOT

\* C29: over an empty key set (count = 0, other arguments valid)
\* mhash_init returns MHASH_FAILED with the table cleared under the default
\* configuration (ceiling capped at count = 0), and MHASH_OK with
\* num_hashes = 1 and all slots empty when MHASH_NO_WORST_CASE is defined;
\* over a single key (count = 1) it returns MHASH_OK with num_hashes = 1.
C29_EmptyAndSingle ==
    /\ (Returned /\ args.count = 0 /\ ~nwc) =>
            ret = MHASH_FAILED /\ AllEmpty
    /\ (Returned /\ args.count = 0 /\ nwc) =>
            ret = MHASH_OK /\ ph.num_hashes = 1 /\ AllEmpty
    /\ (Returned /\ args.count = 1) =>
            ret = MHASH_OK /\ ph.num_hashes = 1

\* With MHASH_NO_WORST_CASE defined, a call over no keys returned MHASH_OK
\* on a buffer that held old entries.
C29_Witness ==
    /\ Returned /\ args.count = 0 /\ nwc /\ stale
    /\ args.table_size = MaxTableSize
    /\ ret = MHASH_OK /\ ph.num_hashes = 1 /\ AllEmpty

\* C30: state unchanged on bad arguments. A mhash_init call whose
\* structure, table or key array pointer is null or whose table_size is 0
\* returns MHASH_FAILED, writes nothing to the table buffer and leaves
\* every field of the structure as it was; whereas after a
\* search-exhausted failure the structure holds the new arguments and
\* num_hashes equal to the ceiling.
C30_BadArgumentsFrame ==
    /\ [][~ValidArguments =>
            /\ ph' = ph
            /\ table' = table
            /\ pc' = "done" => ret' = MHASH_FAILED]_vars
    /\ []((Returned /\ ret = MHASH_FAILED) =>
            ph = [table |-> args.table, table_size |-> args.table_size,
                  count |-> args.count, hash_func |-> args.hash_func,
                  num_hashes |-> Ceiling])

\* A call with a bad argument has returned MHASH_FAILED on a structure and
\* a table that an earlier call had built after a collision: both are as
\* that call left them.
C30_Witness ==
    /\ pc = "done" /\ ~ValidArguments /\ ret = MHASH_FAILED
    /\ ph.num_hashes >= 2 /\ ph.count = MaxCount
    /\ ph.table_size = MaxTableSize
    /\ Cardinality({j \in DOMAIN table : table[j] # MHASH_EMPTY_SLOT})
           = MaxCount

\* What a query of thread r returns when it runs alone on the structure
\* and table of this state.
AloneResult(r) ==
    IF rd[r].op = "mhash_entry" THEN mhash_entry(ph, table, rd[r].s)
    ELSE mhash_check_at(ph, table, rd[r].s, args.keys, ValuesAddress,
                        rd[r].sizeof_value)

\* What the lookup guarantees promise for construction key number j.
Promised(r, j) ==
    IF rd[r].op = "mhash_entry" THEN j - 1
    ELSE ValuesAddress + (j - 1) * rd[r].sizeof_value

\* C25: the core has no locking. A query that no mhash_init call
\* overlapped returns what it returns alone and, on a structure built with
\* MHASH_OK, the dense id i (the address of value i) for construction key
\* k_i; a query interleaved with an in-flight mhash_init on the same
\* buffer is not kept out and is promised nothing: the witness is a run in
\* which it returns a dense id different from i.
C25_OnlyQuietQueries ==
    \A r \in Readers :
        (rd[r].pc = "ret" /\ ~rd[r].overlap) =>
            /\ pc = "done"
            /\ rd[r].result = AloneResult(r)
            /\ ret = MHASH_OK =>
                 \A j \in 1..args.count :
                     rd[r].s = args.keys[j] => rd[r].result = Promised(r, j)

\* mhash_entry for the second construction key ran interleaved with a
\* mhash_init call that has meanwhile returned MHASH_OK, and returns the
\* dense id of the first key, read from a trial that was abandoned.
C25_Witness ==
    /\ Built /\ args.keys[1] # args.keys[2]
    /\ rd[1].pc = "ret" /\ rd[1].overlap /\ rd[1].op = "mhash_entry"
    /\ rd[1].s = args.keys[2] /\ rd[1].result = 0
    /\ mhash_entry(ph, table, rd[1].s) = 1

\* C28: get on a map that has never been built, or that was cleared and
\* not built since, returns nullptr for every key, without faulting.
C28_GetWithoutBuild ==
    (map.op = "get" /\ ~map.rebuilt)
        => (map.pc # "fault" /\ map.result = NULL)

\* The entries of entries_ that hold the key.
EntriesOf(key) ==
    { j \in 1..Len(map.entries_) : map.entries_[j].key = key }

\* C27: when the last build returned without throwing, get(k) returns a
\* pointer to the value inserted with k for every key staged before that
\* build, and nullptr for every other key (never inserted, or inserted
\* after the last build).
C27_GetAfterBuild ==
    (map.op = "get" /\ map.last_build = "returned")
        => IF EntriesOf(map.key) # {}
           THEN map.result \in EntriesOf(map.key)
           ELSE map.result = NULL

\* An attempt at which the loop is to stop: a success with fewer hashes
\* than the bound.
Qualifies(a, bound) == a.success /\ a.num_hashes < bound

\* The growth loop, with bound(policy, n) the number of hashes below which
\* a successful attempt ends it: the attempts start at 3 * n slots and grow
\* strictly within the limits; an attempt that qualifies is the last one
\* and the loop breaks there; the loop is left only at such an attempt or
\* when the next size is over the limits; it is left by the failure exit
\* (throw in rebuild, goto end_of_rep in bench.c) exactly if the last
\* attempt failed; after a break the structure and the table are those of
\* the last attempt, which succeeded.
GrowthLoop(bound(_, _)) ==
    LET A == map.attempts
        n == args.count
        last == A[Len(A)]
    IN map.rebuilt =>
        /\ (map.pc = "attempt" /\ A = <<>>) => args.table_size = 3 * n
        /\ A # <<>> => A[1].table_size = 3 * n
        /\ \A k \in 1..(Len(A) - 1) : A[k].table_size < A[k + 1].table_size
        /\ \A k \in 1..Len(A) : ~OverLimit(A[k].table_size, n)
        /\ \A k \in 1..Len(A) :
              Qualifies(A[k], bound(map.policy, n))
                  => (k = Len(A) /\ map.exit = "break")
        /\ map.exit # "none" =>
              /\ A # <<>>
              /\ \/ Qualifies(last, bound(map.policy, n))
                 \/ OverLimit(Grow(map.policy, last.table_size), n)
              /\ (map.exit \in {"throw", "goto"}) <=> ~last.success
        /\ map.exit = "break" =>
              /\ last.success /\ ret = MHASH_OK
              /\ ph.table_size = last.table_size
              /\ ph.num_hashes = last.num_hashes
              /\ ph.count = n
              /\ DOMAIN table = 0..(ph.table_size - 1)

\* The bound as the claim has it, for both loops.
BoundClaimed(policy, n) == bit_width(n) + 2

\* The bound of each loop: bit_width(n) + 2 in rebuild and
\* floor(log2 n) + 2, which is bit_width(n) + 1, in bench.c.
BoundOfEach(policy, n) ==
    IF policy = "rebuild" THEN bit_width(n) + 2 ELSE bit_width(n) + 1

\* A loop that has been entered is left.
LoopTerminates == (map.pc = "attempt") ~> (map.pc = "idle")

SlotsHolding(v) == { j \in DOMAIN table : table[j] = v }

\* C31: after mhash_init returns MHASH_OK exactly count slots of the table
\* are non-empty and each dense id 0..count-1 occurs in exactly one slot;
\* the remaining table_size - count slots hold MHASH_EMPTY_SLOT.
C31_ExactlyCountSlots ==
    Built =>
        /\ Cardinality(DOMAIN table \ SlotsHolding(MHASH_EMPTY_SLOT))
              = ph.count
        /\ \A d \in 0..(ph.count - 1) : Cardinality(SlotsHolding(d)) = 1
        /\ Cardinality(SlotsHolding(MHASH_EMPTY_SLOT))
              = ph.table_size - ph.count

\* C32: for every hash width and every table_size > 0 accepted by
\* mhash_init, the modulus (MHASH_UINT)table_size used at construction and
\* query is non-zero and the slot index is below table_size, also when
\* table_size does not fit in the hash type.
C32_ModulusNonZero ==
    (ValidArguments /\ pc # "idle") =>
        /\ Modulus(args.table_size) # 0
        /\ pc # "fault"
        /\ idx < args.table_size
        /\ q # NoQuery => q.idx < args.table_size

====
